---- MODULE Spec2Model ----
(***************************************************************************)
(* Model of tentaclio_gsheets.clients.gsheets_client.GoogleSheetsFsClient. *)
(*                                                                         *)
(* Three specifications share the module:                                  *)
(*   SpecFilter  the hidden row/column filter (_get_metadata, _get_hidden, *)
(*               _drop_hidden) applied to bounded grids and metadata;      *)
(*   SpecCsv     the csv encoder of get and the csv decoder of put;        *)
(*   Spec        the life cycle of one client: construct, connect, close,  *)
(*               get, put, with the calls issued to the remote service.    *)
(*                                                                         *)
(* A Python call is modelled by a record [exc, val]: exc is "None" when    *)
(* the call returns val, and the name of the exception when it raises.     *)
(* Text is a sequence of one-character strings.                            *)
(***************************************************************************)
EXTENDS Integers, Sequences, FiniteSets, TLC

VARIABLES
    pc,                     \* which step of the running scenario was taken last
    url,                    \* the locator the client was constructed with
    locator,                \* ghost: the parts the locator was composed of
    include_hidden_columns, \* self.include_hidden_columns
    include_hidden_rows,    \* self.include_hidden_rows
    closed,                 \* self.closed, read by check_conn
    service,                \* self._service: None or [handle |-> n]
    connects,               \* number of handles built so far
    values,                 \* the grid the remote service holds for the range
    metadataResp,           \* what the remote metadata call answers
    calls,                  \* the remote calls issued by the last operation
    outcome,                \* [exc, val] of the last operation
    csvBytes,               \* the bytes get wrote to its writer
    parsed                  \* [exc, val] of the decoder of put (its local values)

vars == <<pc, url, locator, include_hidden_columns, include_hidden_rows, closed,
          service, connects, values, metadataResp, calls, outcome,
          csvBytes, parsed>>

(***************************************************************************)
(* Bounds of the model.                                                    *)
(***************************************************************************)
MaxRows == 2
MaxCols == 2
MaxCsvSize == 4
MaxConnects == 2

\* Python's None, comparable with every record of the model.
None == [isNone |-> TRUE]

Ok(v) == [exc |-> "None", val |-> v]
Raise(e) == [exc |-> e, val |-> <<>>]

Min(a, b) == IF a <= b THEN a ELSE b

(***************************************************************************)
(* Visibility metadata and the hidden row/column filter.                   *)
(***************************************************************************)

\* One entry of columnMetadata / rowMetadata as the service returns it: the
\* key hiddenByUser is absent, or present with a boolean.
MetadataEntries ==
    { [pixelSize |-> 21],
      [pixelSize |-> 21, hiddenByUser |-> TRUE],
      [pixelSize |-> 21, hiddenByUser |-> FALSE] }

\* _get_metadata: execute()["sheets"][0]["data"][0]. The response either has
\* a grid-data section, or indexing it raises IndexError (caught, None is
\* returned), or the call raises a service error (not caught).
GetMetadata(resp) ==
    CASE resp.kind = "data"       -> Ok([columnMetadata |-> resp.columnMetadata,
                                         rowMetadata |-> resp.rowMetadata])
      [] resp.kind = "IndexError" -> Ok(None)
      [] OTHER                    -> Raise(resp.kind)

\* col.get("hiddenByUser", None) is not None. The entries of the model never
\* hold None under the key, so the test is whether the key is present.
HiddenFlag(entry) == "hiddenByUser" \in DOMAIN entry

\* _get_hidden given the value of _get_metadata: {} when it is None.
GetHidden(metadata) ==
    IF metadata = None
    THEN <<>>
    ELSE [row_metadata |->
              [i \in 1..Len(metadata.rowMetadata) |->
                  HiddenFlag(metadata.rowMetadata[i])],
          column_metadata |->
              [i \in 1..Len(metadata.columnMetadata) |->
                  HiddenFlag(metadata.columnMetadata[i])]]

\* [x for x, hidden in zip(xs, hs) if not hidden]
RECURSIVE ZipKeepHidden(_, _)
ZipKeepHidden(xs, hs) ==
    IF xs = <<>> \/ hs = <<>>
    THEN <<>>
    ELSE (IF Head(hs) THEN <<Head(xs)>> ELSE <<>>)
             \o ZipKeepHidden(Tail(xs), Tail(hs))
RECURSIVE ZipKeepPadded(_, _)
ZipKeepPadded(xs, hs) ==
    IF xs = <<>>
    THEN <<>>
    ELSE IF hs = <<>>
    THEN xs
    ELSE (IF ~Head(hs) THEN <<Head(xs)>> ELSE <<>>)
             \o ZipKeepPadded(Tail(xs), Tail(hs))
RECURSIVE ZipKeep(_, _)
ZipKeep(xs, hs) ==
    IF xs = <<>> \/ hs = <<>>
    THEN <<>>
    ELSE (IF ~Head(hs) THEN <<Head(xs)>> ELSE <<>>)
             \o ZipKeep(Tail(xs), Tail(hs))

\* The column step of _drop_hidden (lines 168-176). hidden["column_metadata"]
\* is evaluated once per row, so an empty grid never looks the key up.
DropColumnsPadded(vals, hidden) ==
    IF vals # <<>> /\ "column_metadata" \notin DOMAIN hidden
    THEN Raise("KeyError")
    ELSE Ok([i \in 1..Len(vals) |-> ZipKeepPadded(vals[i], hidden.column_metadata)])
DropColumns(vals, hidden) ==
    IF vals # <<>> /\ "column_metadata" \notin DOMAIN hidden
    THEN Raise("KeyError")
    ELSE Ok([i \in 1..Len(vals) |-> ZipKeep(vals[i], hidden.column_metadata)])

\* The row step of _drop_hidden (lines 178-181). hidden["row_metadata"] is
\* evaluated before the first row is visited.
DropRowsKeepHidden(vals, hidden) ==
    IF "row_metadata" \notin DOMAIN hidden
    THEN Raise("KeyError")
    ELSE Ok(ZipKeepHidden(vals, hidden.row_metadata))
DropRows(vals, hidden) ==
    IF "row_metadata" \notin DOMAIN hidden
    THEN Raise("KeyError")
    ELSE Ok(ZipKeep(vals, hidden.row_metadata))

\* _drop_hidden: the metadata is fetched first, whatever the configuration.
DropHiddenUnconditional(vals, resp, ihc, ihr) ==
    LET md == GetMetadata(resp) IN
    IF md.exc # "None" THEN md
    ELSE LET hidden == GetHidden(md.val)
             cols   == DropColumns(vals, hidden)
         IN  IF cols.exc # "None" THEN cols ELSE DropRows(cols.val, hidden)
DropHidden(vals, resp, ihc, ihr) ==
    LET md == GetMetadata(resp) IN
    IF md.exc # "None" THEN md
    ELSE LET hidden == GetHidden(md.val)
             cols   == IF ~ihc THEN DropColumns(vals, hidden) ELSE Ok(vals)
         IN  IF cols.exc # "None" THEN cols
             ELSE IF ~ihr THEN DropRows(cols.val, hidden) ELSE cols

Digit == <<"0", "1", "2", "3", "4", "5", "6", "7", "8", "9">>

(***************************************************************************)
(* The csv encoder of the read path and the csv decoder of the write path. *)
(* csv.writer and csv.reader are used with delimiter ",", quotechar '"',    *)
(* QUOTE_MINIMAL, doublequote, line terminator CR LF, no escapechar and    *)
(* strict off: the dialect the two calls of the client select.             *)
(***************************************************************************)
CR == "\r"
LF == "\n"
QUOTE == "\""
COMMA == ","
\* A character outside ASCII (e with an acute accent, U+00E9).
EACUTE == "eacute"

RECURSIVE Concat(_)
Concat(seqs) == IF seqs = <<>> THEN <<>> ELSE Head(seqs) \o Concat(Tail(seqs))

\* QUOTE_MINIMAL: a field is quoted when it holds the delimiter, the
\* quotechar or a character of the line terminator.
NeedsQuote(field) ==
    \E i \in 1..Len(field) : field[i] \in {COMMA, QUOTE, CR, LF}

\* A field as the writer emits it; a quotechar inside is doubled.
WriteField(field) ==
    IF NeedsQuote(field)
    THEN <<QUOTE>>
         \o Concat([i \in 1..Len(field) |->
                       IF field[i] = QUOTE THEN <<QUOTE, QUOTE>> ELSE <<field[i]>>])
         \o <<QUOTE>>
    ELSE field

\* writer.writerow(row): the fields joined by the delimiter, a row of one
\* empty field written as two quotechars, then the line terminator.
WriteRowNoEmptyQuote(row) ==
    Concat([i \in 1..Len(row) |->
               (IF i > 1 THEN <<COMMA>> ELSE <<>>) \o WriteField(row[i])])
        \o <<CR, LF>>
WriteRow(row) ==
    (IF Len(row) = 1 /\ row[1] = <<>>
     THEN <<QUOTE, QUOTE>>
     ELSE Concat([i \in 1..Len(row) |->
                    (IF i > 1 THEN <<COMMA>> ELSE <<>>) \o WriteField(row[i])]))
        \o <<CR, LF>>

\* _prepare_to_csv: the filtered grid written row by row into a StringIO
\* (which translates no newline), then read back from its start.
PrepareToCsv(vals, resp, ihc, ihr) ==
    LET dropped == DropHidden(vals, resp, ihc, ihr) IN
    IF dropped.exc # "None" THEN dropped
    ELSE Ok(Concat([r \in 1..Len(dropped.val) |-> WriteRow(dropped.val[r])]))

\* str.encode("utf-8") on the characters of the model.
Utf8Of(c) ==
    CASE c = CR     -> <<13>>
      [] c = LF     -> <<10>>
      [] c = QUOTE  -> <<34>>
      [] c = COMMA  -> <<44>>
      [] c = "a"    -> <<97>>
      [] c = EACUTE -> <<195, 169>>
      [] OTHER      -> <<47 + CHOOSE d \in 1..10 : Digit[d] = c>>
Utf8Encode(text) == Concat([i \in 1..Len(text) |-> Utf8Of(text[i])])

\* bytes.decode(): UTF-8, strict.
AsciiChars == {CR, LF, QUOTE, COMMA, "a"} \cup { Digit[d] : d \in 1..10 }
RECURSIVE Utf8Decode(_)
Utf8Decode(bytes) ==
    IF bytes = <<>> THEN Ok(<<>>)
    ELSE LET b == Head(bytes) IN
         IF \E c \in AsciiChars : Utf8Of(c) = <<b>>
         THEN LET rest == Utf8Decode(Tail(bytes)) IN
              IF rest.exc # "None" THEN rest
              ELSE Ok(<<CHOOSE c \in AsciiChars : Utf8Of(c) = <<b>>>> \o rest.val)
         ELSE IF b = 195 /\ Len(bytes) >= 2 /\ bytes[2] = 169
         THEN LET rest == Utf8Decode(Tail(Tail(bytes))) IN
              IF rest.exc # "None" THEN rest ELSE Ok(<<EACUTE>> \o rest.val)
         ELSE Raise("UnicodeDecodeError")

\* Iterating io.StringIO(text): the lines end after each LF and keep it; a
\* CR alone ends no line.
RECURSIVE SplitLines(_, _)
SplitLines(text, line) ==
    IF text = <<>>
    THEN IF line = <<>> THEN <<>> ELSE <<line>>
    ELSE IF Head(text) = LF
    THEN <<Append(line, LF)>> \o SplitLines(Tail(text), <<>>)
    ELSE SplitLines(Tail(text), Append(line, Head(text)))

\* The parser of csv.reader. A parser state is [state, field, fields, exc];
\* EOL is the mark the reader feeds after the last character of a line.
EOL == "EOL"
ParseReset == [state |-> "START_RECORD", field |-> <<>>, fields |-> <<>>,
               exc |-> "None"]
SaveField(st) == [st EXCEPT !.fields = Append(st.fields, st.field),
                            !.field = <<>>]
AfterNewline(c) == IF c = EOL THEN "START_RECORD" ELSE "EAT_CRNL"

StartField(st, c) ==
    IF c \in {LF, CR, EOL}
    THEN [SaveField(st) EXCEPT !.state = AfterNewline(c)]
    ELSE IF c = QUOTE
    THEN [st EXCEPT !.state = "IN_QUOTED_FIELD"]
    ELSE IF c = COMMA
    THEN [SaveField(st) EXCEPT !.state = "START_FIELD"]
    ELSE [st EXCEPT !.field = Append(st.field, c), !.state = "IN_FIELD"]

ProcessChar(st, c) ==
    CASE st.state = "START_RECORD" ->
            IF c = EOL THEN st
            ELSE IF c \in {LF, CR} THEN [st EXCEPT !.state = "EAT_CRNL"]
            ELSE StartField(st, c)
      [] st.state = "START_FIELD" -> StartField(st, c)
      [] st.state = "IN_FIELD" ->
            IF c \in {LF, CR, EOL}
            THEN [SaveField(st) EXCEPT !.state = AfterNewline(c)]
            ELSE IF c = COMMA
            THEN [SaveField(st) EXCEPT !.state = "START_FIELD"]
            ELSE [st EXCEPT !.field = Append(st.field, c)]
      [] st.state = "IN_QUOTED_FIELD" ->
            IF c = EOL THEN st
            ELSE IF c = QUOTE
            THEN [st EXCEPT !.state = "QUOTE_IN_QUOTED_FIELD"]
            ELSE [st EXCEPT !.field = Append(st.field, c)]
      [] st.state = "QUOTE_IN_QUOTED_FIELD" ->
            IF c = QUOTE
            THEN [st EXCEPT !.field = Append(st.field, c),
                            !.state = "IN_QUOTED_FIELD"]
            ELSE IF c = COMMA
            THEN [SaveField(st) EXCEPT !.state = "START_FIELD"]
            ELSE IF c \in {LF, CR, EOL}
            THEN [SaveField(st) EXCEPT !.state = AfterNewline(c)]
            ELSE [st EXCEPT !.field = Append(st.field, c), !.state = "IN_FIELD"]
      [] st.state = "EAT_CRNL" ->
            IF c \in {LF, CR} THEN st
            ELSE IF c = EOL THEN [st EXCEPT !.state = "START_RECORD"]
            ELSE [st EXCEPT !.exc = "csv.Error"]

RECURSIVE ProcessLine(_, _)
ProcessLine(st, line) ==
    IF st.exc # "None" THEN st
    ELSE IF line = <<>> THEN ProcessChar(st, EOL)
    ELSE ProcessLine(ProcessChar(st, Head(line)), Tail(line))

\* [row for row in csv_reader]: a record ends when the parser is back at
\* START_RECORD after a line; input that ends inside a quoted field yields
\* the record read so far.
RECURSIVE ReadRows(_, _)
ReadRows(lines, st) ==
    IF lines = <<>>
    THEN IF st.state = "IN_QUOTED_FIELD" \/ st.field # <<>>
         THEN Ok(<<SaveField(st).fields>>)
         ELSE Ok(<<>>)
    ELSE LET next == ProcessLine(st, Head(lines)) IN
         IF next.exc # "None" THEN Raise(next.exc)
         ELSE IF next.state = "START_RECORD"
         THEN LET rest == ReadRows(Tail(lines), ParseReset) IN
              IF rest.exc # "None" THEN rest
              ELSE Ok(<<next.fields>> \o rest.val)
         ELSE ReadRows(Tail(lines), next)

\* The decoding half of put: reader.read().decode(), then csv.reader over
\* the StringIO of the text.
ParseCsv(bytes) ==
    LET text == Utf8Decode(bytes) IN
    IF text.exc # "None" THEN text
    ELSE ReadRows(SplitLines(text.val, <<>>), ParseReset)

(***************************************************************************)
(* SpecFilter: _drop_hidden on every bounded grid, metadata response and   *)
(* configuration.                                                          *)
(***************************************************************************)
\* The cell at row r, column c holds the text "rc": every cell of a grid is
\* distinct, so a filter that keeps the wrong cell is seen.
Cell(r, c) == <<Digit[r + 1], Digit[c + 1]>>

\* Ragged grids: any number of rows up to MaxRows, each of 0..MaxCols cells.
Shapes == UNION { [1..n -> 0..MaxCols] : n \in 0..MaxRows }
GridOf(shape) == [r \in 1..Len(shape) |-> [c \in 1..shape[r] |-> Cell(r, c)]]
Grids == { GridOf(sh) : sh \in Shapes }

SeqsUpTo(S, n) == UNION { [1..k -> S] : k \in 0..n }

MetadataResponses ==
    { [kind |-> "data", columnMetadata |-> cm, rowMetadata |-> rm] :
          cm \in SeqsUpTo(MetadataEntries, MaxCols),
          rm \in SeqsUpTo(MetadataEntries, MaxRows) }
    \cup { [kind |-> "IndexError"], [kind |-> "HttpError"] }

NoUrl == <<>>
NoLocator == [scheme |-> <<>>, id |-> <<>>, range |-> <<>>, slash |-> FALSE]

InitFilter ==
    /\ pc = "start"
    /\ values \in Grids
    /\ metadataResp \in MetadataResponses
    /\ include_hidden_columns \in BOOLEAN
    /\ include_hidden_rows \in BOOLEAN
    /\ url = NoUrl /\ locator = NoLocator
    /\ closed = TRUE /\ service = None /\ connects = 0
    /\ calls = <<>> /\ outcome = Ok(<<>>)
    /\ csvBytes = <<>> /\ parsed = Ok(<<>>)

\* client._drop_hidden(values), as the unit test calls it.
DropHiddenStep ==
    /\ pc = "start"
    /\ pc' = "dropped"
    /\ outcome' = DropHidden(values, metadataResp,
                             include_hidden_columns, include_hidden_rows)
    /\ UNCHANGED <<url, locator, include_hidden_columns, include_hidden_rows,
                   closed, service, connects, values, metadataResp, calls,
                   csvBytes, parsed>>

NextFilter == DropHiddenStep

SpecFilter == InitFilter /\ [][NextFilter]_vars

(***************************************************************************)
(* Properties of the filter, stated by position and not by the zip of the  *)
(* code.                                                                   *)
(***************************************************************************)

\* The flags _get_hidden derives from the response held in the state.
DerivedHidden == GetHidden(GetMetadata(metadataResp).val)
ColumnFlags == DerivedHidden.column_metadata
RowFlags == DerivedHidden.row_metadata

\* The positions of a sequence of n items that have a flag, and a false one.
KeptPositions(n, flags) == { i \in 1..Min(n, Len(flags)) : ~flags[i] }
NthOf(S, k) == CHOOSE i \in S : Cardinality({ j \in S : j <= i }) = k
\* The items of xs at the positions S, in their original order.
Pick(xs, S) == [k \in 1..Cardinality(S) |-> xs[NthOf(S, k)]]

ColumnsRemoved(grid) ==
    [r \in 1..Len(grid) |->
        Pick(grid[r], KeptPositions(Len(grid[r]), ColumnFlags))]
RowsRemoved(grid) == Pick(grid, KeptPositions(Len(grid), RowFlags))

Dropped == pc = "dropped"
HasGridData == metadataResp.kind = "data"

\* C1 (as claimed): when the metadata fetch fails with an IndexError, the
\* filter does not raise and returns the fetched grid, whatever the
\* configuration.
C1_NoMetadataDropsNothing ==
    (Dropped /\ metadataResp.kind = "IndexError") => outcome = Ok(values)

\* C2: with hidden columns excluded and hidden rows included, the result has
\* the rows of the input, in order, each reduced to its cells at the positions
\* that have a column flag and whose flag is false, in their original order;
\* this never raises.
C2_ColumnFilter ==
    (Dropped /\ HasGridData /\ ~include_hidden_columns /\ include_hidden_rows)
        => /\ outcome.exc = "None"
           /\ Len(outcome.val) = Len(values)
           /\ \A r \in 1..Len(values) :
                 outcome.val[r] =
                     Pick(values[r], KeptPositions(Len(values[r]), ColumnFlags))

\* C2 witness: a hidden column was removed from a row that also has a cell
\* beyond the column flags.
C2_Witness ==
    /\ Dropped /\ HasGridData /\ ~include_hidden_columns /\ include_hidden_rows
    /\ \E r \in 1..Len(values) :
          /\ Len(values[r]) > Len(ColumnFlags)
          /\ \E i \in 1..Len(ColumnFlags) : ColumnFlags[i]
          /\ outcome.exc = "None"
          /\ Len(outcome.val[r]) < Len(ColumnFlags)

\* C3: the result is the row filter applied to the column-filtered grid, each
\* filter applied only when the configuration excludes hidden items; the row
\* filter keeps exactly the rows that have a row flag and whose flag is false.
C3_ColumnsThenRows ==
    (Dropped /\ HasGridData)
        => outcome =
             Ok(LET cols == IF include_hidden_columns THEN values
                            ELSE ColumnsRemoved(values)
                IN  IF include_hidden_rows THEN cols ELSE RowsRemoved(cols))

\* C3 witness: both filters ran, a hidden row was removed, and a row that
\* stays lost a hidden column and kept a cell.
C3_Witness ==
    /\ Dropped /\ HasGridData /\ ~include_hidden_columns /\ ~include_hidden_rows
    /\ \E i \in 1..Min(Len(values), Len(RowFlags)) : RowFlags[i]
    /\ \E i \in 1..Min(Len(values), Len(RowFlags)) :
          /\ ~RowFlags[i]
          /\ \E c \in 1..Min(Len(values[i]), Len(ColumnFlags)) : ColumnFlags[c]
          /\ \E c \in 1..Min(Len(values[i]), Len(ColumnFlags)) : ~ColumnFlags[c]
    /\ outcome.exc = "None"
    /\ \E r \in 1..Len(outcome.val) : outcome.val[r] # <<>>

\* C4: with both inclusion flags true the result is the input grid, whether
\* the metadata has a grid-data section or not.
C4_NoOp ==
    (Dropped /\ include_hidden_columns /\ include_hidden_rows
        /\ metadataResp.kind \in {"data", "IndexError"})
        => outcome = Ok(values)

\* C4 witness: a ragged grid longer than its metadata, with a hidden column
\* and a hidden row flagged, came back unchanged.
C4_Witness ==
    /\ Dropped /\ include_hidden_columns /\ include_hidden_rows /\ HasGridData
    /\ Len(values) > Len(RowFlags)
    /\ \E i \in 1..Len(RowFlags) : RowFlags[i]
    /\ \E i \in 1..Len(ColumnFlags) : ColumnFlags[i]
    /\ \E r, q \in 1..Len(values) : Len(values[r]) # Len(values[q])
    /\ outcome = Ok(values)

\* C10 (as claimed): the derived flag of a column or row is true exactly when
\* its metadata entry has hiddenByUser true.
HiddenByUser(entry) == "hiddenByUser" \in DOMAIN entry /\ entry.hiddenByUser
C10_FlagIffHiddenByUser ==
    (Dropped /\ HasGridData)
        => /\ \A i \in 1..Len(metadataResp.columnMetadata) :
                 ColumnFlags[i] = HiddenByUser(metadataResp.columnMetadata[i])
           /\ \A i \in 1..Len(metadataResp.rowMetadata) :
                 RowFlags[i] = HiddenByUser(metadataResp.rowMetadata[i])

(***************************************************************************)
(* SpecCsv: a grid of strings is encoded as get encodes it and the bytes   *)
(* are decoded as put decodes them.                                        *)
(***************************************************************************)

\* The fields tried: empty, plain, non-ASCII, and the characters the dialect
\* treats specially, alone and next to others.
CsvFields ==
    { <<>>, <<"a">>, <<EACUTE>>, <<COMMA>>, <<QUOTE>>, <<CR>>, <<LF>>,
      <<"a", QUOTE>>, <<QUOTE, QUOTE>>, <<CR, LF>>, <<LF, "a">> }

RECURSIVE RowsOfLen(_)
RowsOfLen(k) ==
    IF k = 0 THEN {<<>>}
    ELSE { Append(r, f) : r \in RowsOfLen(k - 1), f \in CsvFields }

\* The grids whose rows and cells number n together (ragged rows, empty
\* rows and the empty grid included).
RECURSIVE GridsOfSize(_)
GridsOfSize(n) ==
    IF n = 0 THEN {<<>>}
    ELSE UNION { { <<r>> \o g : r \in RowsOfLen(k), g \in GridsOfSize(n - 1 - k) } :
                 k \in 0..(n - 1) }

CsvGrids == UNION { GridsOfSize(n) : n \in 0..MaxCsvSize }

CsvMetadataResponses ==
    { [kind |-> "IndexError"],
      [kind |-> "data",
       columnMetadata |-> <<[pixelSize |-> 21, hiddenByUser |-> TRUE]>>,
       rowMetadata |-> <<[pixelSize |-> 21, hiddenByUser |-> TRUE]>>] }

InitCsv ==
    /\ pc = "start"
    /\ values \in CsvGrids
    /\ metadataResp \in CsvMetadataResponses
    /\ include_hidden_columns = TRUE
    /\ include_hidden_rows = TRUE
    /\ url = NoUrl /\ locator = NoLocator
    /\ closed = TRUE /\ service = None /\ connects = 0
    /\ calls = <<>> /\ outcome = Ok(<<>>)
    /\ csvBytes = <<>> /\ parsed = Ok(<<>>)

\* The body of get: result = self._prepare_to_csv(values);
\* writer.write(result.read().encode("utf-8")).
EncodeStep ==
    /\ pc = "start"
    /\ LET result == PrepareToCsv(values, metadataResp,
                                  include_hidden_columns, include_hidden_rows)
       IN  /\ outcome' = result
           /\ IF result.exc = "None"
              THEN pc' = "encoded" /\ csvBytes' = Utf8Encode(result.val)
              ELSE pc' = "failed" /\ csvBytes' = csvBytes
    /\ UNCHANGED <<url, locator, include_hidden_columns, include_hidden_rows,
                   closed, service, connects, values, metadataResp, calls,
                   parsed>>

\* The decoding of put applied to the bytes get wrote.
DecodeStep ==
    /\ pc = "encoded"
    /\ pc' = "decoded"
    /\ parsed' = ParseCsv(csvBytes)
    /\ UNCHANGED <<url, locator, include_hidden_columns, include_hidden_rows,
                   closed, service, connects, values, metadataResp, calls,
                   outcome, csvBytes>>

NextCsv == EncodeStep \/ DecodeStep

SpecCsv == InitCsv /\ [][NextCsv]_vars

\* C6: encoding a grid of strings on the read path and decoding the bytes
\* on the write path gives the grid back, every value the same string.
C6_RoundTrip == pc = "decoded" => parsed = Ok(values)

\* C6 witness: a grid with an empty row and a field that needs quoting made
\* the round trip.
C6_Witness ==
    /\ pc = "decoded"
    /\ Len(values) >= 2
    /\ \E r \in 1..Len(values) : values[r] = <<>>
    /\ \E r \in 1..Len(values) : \E c \in 1..Len(values[r]) :
          NeedsQuote(values[r][c]) /\ QUOTE \in { values[r][c][i] : i \in 1..Len(values[r][c]) }
    /\ parsed = Ok(values)

(***************************************************************************)
(* Spec: one client through construct, connect, close, get and put.        *)
(***************************************************************************)
allowed_schemes == { <<"g", "s", "h", "e", "e", "t">>,
                     <<"g", "s", "h", "e", "e", "t", "s">> }

\* str.split(sep): the segments between the occurrences of sep.
RECURSIVE Split(_, _, _)
Split(text, sep, seg) ==
    IF text = <<>> THEN <<seg>>
    ELSE IF Head(text) = sep
    THEN <<seg>> \o Split(Tail(text), sep, <<>>)
    ELSE Split(Tail(text), sep, Append(seg, Head(text)))

\* The text from position i on (text[i-1:] in Python).
From(text, i) == SubSeq(text, i, Len(text))

IndexOf(text, c) ==
    IF \E i \in 1..Len(text) : text[i] = c
    THEN CHOOSE i \in 1..Len(text) :
             text[i] = c /\ \A j \in 1..(i - 1) : text[j] # c
    ELSE 0

\* url.scheme and url.path as urlparse splits scheme://netloc/path: the
\* netloc runs to the first "/" after the "//", the path is the rest.
UrlScheme(u) == SubSeq(u, 1, IndexOf(u, ":") - 1)
UrlPath(u) ==
    LET afterScheme == From(u, IndexOf(u, ":") + 1)
        afterSlashes == IF Len(afterScheme) >= 2 /\ SubSeq(afterScheme, 1, 2) = <<"/", "/">>
                        THEN From(afterScheme, 3) ELSE <<>>
        slash == IndexOf(afterSlashes, "/")
    IN  IF Len(afterScheme) >= 2 /\ SubSeq(afterScheme, 1, 2) = <<"/", "/">>
        THEN IF slash = 0 THEN <<>> ELSE From(afterSlashes, slash)
        ELSE afterScheme

\* The property cell_range: self.url.path[1:].
CellRange(u) == From(UrlPath(u), 2)

\* The property sheet_id: self.url.url.split("/")[2].
SheetIdLastSegment(u) ==
    LET parts == Split(u, "/", <<>>) IN parts[Len(parts)]
SheetId(u) == Split(u, "/", <<>>)[3]

\* The locators tried: <scheme>://<id>[/<range>], the id or the range
\* possibly empty, the range possibly holding a "/".
Schemes == allowed_schemes \cup { <<"h", "t", "t", "p">> }
Ids == { <<>>, <<"d">> }
Ranges == { <<>>, <<"r">>, <<"r", "/", "c">> }
Locators ==
    { loc \in [scheme : Schemes, id : Ids, range : Ranges, slash : BOOLEAN] :
          loc.range # <<>> => loc.slash }
MakeUrl(loc) ==
    loc.scheme \o <<":", "/", "/">> \o loc.id
        \o (IF loc.slash THEN <<"/">> \o loc.range ELSE <<>>)

\* What the remote service holds when the scenario starts.
ClientGrids ==
    { <<>>,
      << <<Cell(1, 1), Cell(1, 2)>>, <<Cell(2, 1), Cell(2, 2)>> >> }
ClientMetadataResponses ==
    { [kind |-> "IndexError"], [kind |-> "HttpError"],
      [kind |-> "data",
       columnMetadata |-> <<[pixelSize |-> 21, hiddenByUser |-> TRUE],
                            [pixelSize |-> 21]>>,
       rowMetadata |-> <<[pixelSize |-> 21],
                         [pixelSize |-> 21, hiddenByUser |-> TRUE]>>] }

\* The bytes a producer hands to put: "a,1" CR LF "2,3" CR LF, nothing, a
\* byte that is no UTF-8, or what the last get wrote.
PutInputs ==
    { <<97, 44, 49, 13, 10, 50, 44, 51, 13, 10>>, <<>>, <<255>> }

Init ==
    /\ pc = "new"
    /\ url = NoUrl /\ locator = NoLocator
    /\ include_hidden_columns = TRUE /\ include_hidden_rows = TRUE
    /\ closed = TRUE /\ service = None /\ connects = 0
    /\ values \in ClientGrids
    /\ metadataResp \in ClientMetadataResponses
    /\ calls = <<>> /\ outcome = Ok(<<>>)
    /\ csvBytes = <<>> /\ parsed = Ok(<<>>)

\* An instance exists once __init__ has returned.
Constructed == pc # "new" /\ ~(pc = "construct" /\ outcome.exc # "None")

\* GoogleSheetsFsClient(url, include_hidden_columns=.., include_hidden_rows=..):
\* the base class leaves the client closed and refuses a scheme that is not
\* in allowed_schemes; __init__ checks nothing else and opens no connection.
Construct(loc, ihc, ihr) ==
    /\ pc = "new"
    /\ pc' = "construct"
    /\ locator' = loc
    /\ url' = MakeUrl(loc)
    /\ closed' = TRUE
    /\ IF UrlScheme(MakeUrl(loc)) \in allowed_schemes
       THEN /\ outcome' = Ok(<<>>)
            /\ include_hidden_columns' = ihc
            /\ include_hidden_rows' = ihr
       ELSE /\ outcome' = Raise("ValueError")
            /\ UNCHANGED <<include_hidden_columns, include_hidden_rows>>
    /\ UNCHANGED <<service, connects, values, metadataResp, calls, csvBytes, parsed>>

\* connect(): the base class marks the client open and _connect builds a
\* new service handle.
Connect ==
    /\ Constructed
    /\ connects < MaxConnects
    /\ pc' = "connect"
    /\ closed' = FALSE
    /\ connects' = connects + 1
    /\ service' = [handle |-> connects + 1]
    /\ calls' = <<>>
    /\ outcome' = Ok(<<>>)
    /\ UNCHANGED <<url, locator, include_hidden_columns, include_hidden_rows,
                   values, metadataResp, csvBytes, parsed>>

\* close(): self._service = None, and nothing else.
Close ==
    /\ Constructed
    /\ pc' = "close"
    /\ service' = None
    /\ calls' = <<>>
    /\ outcome' = Ok(<<>>)
    /\ UNCHANGED <<url, locator, include_hidden_columns, include_hidden_rows,
                   closed, connects, values, metadataResp, csvBytes, parsed>>

\* check_conn: the decorated method runs only when self.closed is false.
CheckConn == ~closed

\* The calls of the client on the service handle.
ValuesGetCall ==
    [method |-> "values.get", spreadsheetId |-> SheetId(url),
     range |-> CellRange(url)]
MetadataGetCall ==
    [method |-> "get", spreadsheetId |-> SheetId(url),
     ranges |-> CellRange(url), includeGridData |-> TRUE]
WriteToGsheets(grid) ==
    [method |-> "values.update", spreadsheetId |-> SheetId(url),
     range |-> CellRange(url), valueInputOption |-> "USER_ENTERED",
     body |-> [values |-> grid]]

\* get(writer): the value fetch, then _prepare_to_csv (which fetches the
\* metadata inside _drop_hidden), then the write of the encoded text.
Get ==
    /\ Constructed
    /\ pc' = "get"
    /\ IF ~CheckConn
       THEN outcome' = Raise("ConnectionError") /\ calls' = <<>>
                /\ csvBytes' = csvBytes
       ELSE IF service = None
       THEN outcome' = Raise("AttributeError") /\ calls' = <<>>
                /\ csvBytes' = csvBytes
       ELSE LET result == PrepareToCsv(values, metadataResp,
                                       include_hidden_columns, include_hidden_rows)
            IN  /\ calls' = <<ValuesGetCall, MetadataGetCall>>
                /\ outcome' = result
                /\ csvBytes' = IF result.exc = "None"
                               THEN Utf8Encode(result.val) ELSE csvBytes
    /\ UNCHANGED <<url, locator, include_hidden_columns, include_hidden_rows,
                   closed, service, connects, values, metadataResp, parsed>>

\* put(reader): the bytes are decoded and parsed, then _write_to_gsheets
\* sends the grid; the service then holds that grid for the range.
Put(bytes) ==
    /\ Constructed
    /\ pc' = "put"
    /\ IF ~CheckConn
       THEN outcome' = Raise("ConnectionError") /\ calls' = <<>>
                /\ UNCHANGED <<parsed, values>>
       ELSE LET grid == ParseCsv(bytes) IN
            /\ parsed' = grid
            /\ IF grid.exc # "None"
               THEN outcome' = grid /\ calls' = <<>> /\ values' = values
               ELSE IF service = None
               THEN outcome' = Raise("AttributeError") /\ calls' = <<>>
                        /\ values' = values
               ELSE outcome' = Ok(<<>>) /\ calls' = <<WriteToGsheets(grid.val)>>
                        /\ values' = grid.val
    /\ UNCHANGED <<url, locator, include_hidden_columns, include_hidden_rows,
                   closed, service, connects, metadataResp, csvBytes>>

Next ==
    \/ \E loc \in Locators, ihc \in BOOLEAN, ihr \in BOOLEAN : Construct(loc, ihc, ihr)
    \/ Connect
    \/ Close
    \/ Get
    \/ \E bytes \in PutInputs \cup {csvBytes} : Put(bytes)

Spec == Init /\ [][Next]_vars

\* C5: a put that reaches the service issues exactly one call, the update,
\* addressed to the spreadsheet id and the cell range the locator was
\* composed of, carrying the parsed grid unchanged and USER_ENTERED.
C5_OneUpdateCall ==
    (pc = "put" /\ outcome.exc = "None")
        => /\ Len(calls) = 1
           /\ calls[1].method = "values.update"
           /\ calls[1].spreadsheetId = locator.id
           /\ calls[1].range = locator.range
           /\ calls[1].valueInputOption = "USER_ENTERED"
           /\ calls[1].body = [values |-> parsed.val]

\* C5 witness: a two-row grid was written to a locator whose range holds a
\* "/" and the service now holds it.
C5_Witness ==
    /\ pc = "put" /\ outcome.exc = "None"
    /\ locator.id = <<"d">> /\ locator.range = <<"r", "/", "c">>
    /\ parsed = Ok(<< <<<<"a">>, <<"1">>>>, <<<<"2">>, <<"3">>>> >>)
    /\ Len(calls) = 1
    /\ values = parsed.val

\* C7 (as claimed): a get with both inclusion flags true issues no grid
\* metadata call.
C7_NoMetadataCallWhenIncluded ==
    (pc = "get" /\ include_hidden_columns /\ include_hidden_rows)
        => \A i \in 1..Len(calls) : calls[i].method # "get"

\* C8 (as claimed): a get or put on a client that holds no service handle
\* fails the connection check and issues no remote call.
C8_GuardedBySession ==
    (pc \in {"get", "put"} /\ service = None)
        => (outcome.exc = "ConnectionError" /\ calls = <<>>)

\* C9 (as claimed): no client exists with an empty spreadsheet id or an
\* empty cell range.
C9_MalformedLocatorRefused ==
    Constructed => (SheetId(url) # <<>> /\ CellRange(url) # <<>>)

====
